---- MODULE Spec2Model ----
(***************************************************************************)
(* Model of src/charts/growth-chart.resource.ts: the useGrowthData hook,   *)
(* the key it hands to useSWR, and the reshaping of the fetched            *)
(* Observation bundle into the height and weight series.                   *)
(*                                                                         *)
(* JavaScript values are modelled as follows.  An object is a record; a    *)
(* property that is absent from the object is absent from the record's     *)
(* DOMAIN.  A string the code only compares or interpolates is a TLA+      *)
(* string; a string the code lower-cases is a sequence of one-character    *)
(* strings.  patientUuid, which may be a string, undefined or null, is a   *)
(* tagged record.                                                          *)
(***************************************************************************)
EXTENDS Integers, Sequences, FiniteSets, TLC

VARIABLES
    tz,         \* the runtime's time zone, read by Date.prototype.toLocaleDateString
    server,     \* server[p]: the payload the FHIR endpoint answers for patient p
    cache,      \* cache[k]: what the fetch collaborator holds for key k
    inflight,   \* inflight[k]: number of network requests in flight for key k
    issued,     \* every key a network request was ever issued for
    patientId,  \* patientId[c]: the argument of component c's last evaluation
    key,        \* key[c]: the key that evaluation handed to useSWR
    swr,        \* swr[c]: what useSWR returned to that evaluation
    result,     \* result[c]: what that evaluation of useGrowthData produced
    left,       \* left[c]: keys c moved away from while their request was in flight
    late        \* late[c]: keys of left[c] whose response arrived afterwards

vars == <<tz, server, cache, inflight, issued, patientId, key, swr, result, left, late>>

----------------------------------------------------------------------------
(* Bounds of the model *)

\* longest `data` array of a payload drawn in InitPayload
MaxEntries == 3

Components == {"c1", "c2"}

----------------------------------------------------------------------------
(* JavaScript values *)

EmptyObject == [f \in {} |-> TRUE]

Undefined == [kind |-> "undefined"]
Null == [kind |-> "null"]
Str(s) == [kind |-> "string", s |-> s]

Has(obj, field) == field \in DOMAIN obj

\* patientUuid values an evaluation is called with
PatientIds == {Str(""), Undefined, Null, Str("p1"), Str("p2")}

\* ToBoolean of a patientUuid
Truthy(p) == p.kind = "string" /\ p.s # ""

\* ${patientUuid} in a template literal
TemplateString(p) ==
    CASE p.kind = "undefined" -> "undefined"
      [] p.kind = "null" -> "null"
      [] OTHER -> p.s

\* fhirBaseUrl of @openmrs/esm-framework
fhirBaseUrl == "/ws/fhir2/R4"

\* a mutant of ApiUrl: the patient is left out of the query string
ApiUrlWithoutPatient(patientUuid) ==
    fhirBaseUrl \o "/Observation?patient=" \o "&code=height,weight"

ApiUrl(patientUuid) ==
    fhirBaseUrl \o "/Observation?patient=" \o TemplateString(patientUuid)
                \o "&code=height,weight"

\* a mutant of SwrKey: the url is handed over unconditionally
SwrKeyUnconditional(patientUuid) == Str(ApiUrl(patientUuid))

\* patientUuid ? apiUrl : null
SwrKey(patientUuid) ==
    IF Truthy(patientUuid) THEN Str(ApiUrl(patientUuid)) ELSE Null

----------------------------------------------------------------------------
(* Strings the code lower-cases *)

UpperToLower ==
    [c \in {"H", "E", "I", "G", "T", "W", "B", "M"} |->
        CASE c = "H" -> "h" [] c = "E" -> "e" [] c = "I" -> "i"
          [] c = "G" -> "g" [] c = "T" -> "t" [] c = "W" -> "w"
          [] c = "B" -> "b" [] c = "M" -> "m"]

LowerChar(c) == IF c \in DOMAIN UpperToLower THEN UpperToLower[c] ELSE c

\* String.prototype.toLowerCase
ToLowerCase(s) == [i \in 1..Len(s) |-> LowerChar(s[i])]

height == <<"h", "e", "i", "g", "h", "t">>
weight == <<"w", "e", "i", "g", "h", "t">>
Height == <<"H", "e", "i", "g", "h", "t">>
WEIGHT == <<"W", "E", "I", "G", "H", "T">>
bmi == <<"b", "m", "i">>

----------------------------------------------------------------------------
(* Dates *)

TimeZones == {"UTC", "America/Lima"}

\* new Date(s).toLocaleDateString() in the en-US locale: a date-only ISO
\* string is midnight UTC, shown as the local calendar day
ToLocaleDateString(s, zone) ==
    CASE s = "2024-01-01" -> IF zone = "UTC" THEN "1/1/2024" ELSE "12/31/2023"
      [] s = "2024-06-15" -> IF zone = "UTC" THEN "6/15/2024" ELSE "6/14/2024"
      [] OTHER -> "Invalid Date"

----------------------------------------------------------------------------
(* The reshaping of a payload, lines 40 to 66 *)

\* a mutant of EmptyGrowthData: the series object outlives the evaluation
GrowthDataKeptAcrossCalls(c) ==
    IF Has(result[c], "growthData") THEN result[c].growthData
    ELSE [height |-> <<>>, weight |-> <<>>]

\* the literal of lines 40 to 43, allocated by component c's evaluation
EmptyGrowthData(c) == [height |-> <<>>, weight |-> <<>>]

\* a mutant of IsValidObservation: the unit is not looked at
IsValidIgnoringUnit(resource) ==
    /\ Has(resource, "effectiveDateTime") /\ resource.effectiveDateTime # ""
    /\ Has(resource, "valueQuantity")
    /\ Has(resource.valueQuantity, "value") /\ resource.valueQuantity.value # 0

\* effectiveDateTime && valueQuantity?.value && valueQuantity.unit
IsValidObservation(resource) ==
    /\ Has(resource, "effectiveDateTime") /\ resource.effectiveDateTime # ""
    /\ Has(resource, "valueQuantity")
    /\ Has(resource.valueQuantity, "value") /\ resource.valueQuantity.value # 0
    /\ Has(resource.valueQuantity, "unit") /\ resource.valueQuantity.unit # ""

\* the measurement literal of lines 51 to 55; a unit read from a quantity
\* that lacks it is undefined, modelled as a measurement without the property
Measurement(resource, zone) ==
    IF Has(resource.valueQuantity, "unit")
    THEN [date |-> ToLocaleDateString(resource.effectiveDateTime, zone),
          value |-> resource.valueQuantity.value,
          unit |-> resource.valueQuantity.unit]
    ELSE [date |-> ToLocaleDateString(resource.effectiveDateTime, zone),
          value |-> resource.valueQuantity.value]

\* resource?.code?.coding?.[0]?.code?.toLowerCase(); <<>> stands for undefined
\* in a one-element wrapper so that a code is never compared with undefined
CodeOf(resource) ==
    IF /\ Has(resource, "code")
       /\ Has(resource.code, "coding")
       /\ Len(resource.code.coding) >= 1
       /\ Has(resource.code.coding[1], "code")
    THEN <<ToLowerCase(resource.code.coding[1].code)>>
    ELSE <<>>

\* a mutant of Push: the measurement is put in front
Unshift(series, measurement) == <<measurement>> \o series

\* Array.prototype.push
Push(series, measurement) == Append(series, measurement)

\* a thrown TypeError, in place of the series
TypeError == [threw |-> TRUE]

\* the callback of data.data.forEach, lines 46 to 65, applied to one entry;
\* destructuring the properties of an undefined resource throws
Callback(growthData, entry, zone) ==
    IF ~Has(entry, "resource") THEN TypeError
    ELSE LET resource == entry.resource
             code == CodeOf(resource)
         IN  IF ~IsValidObservation(resource) THEN growthData
             ELSE IF code = <<height>>
                  THEN [growthData EXCEPT
                          !.height = Push(@, Measurement(resource, zone))]
             ELSE IF code = <<weight>>
                  THEN [growthData EXCEPT
                          !.weight = Push(@, Measurement(resource, zone))]
             ELSE growthData

\* Array.prototype.forEach from entry i on; a throw ends the iteration
RECURSIVE ForEach(_, _, _, _)
ForEach(entries, i, growthData, zone) ==
    IF i > Len(entries) THEN growthData
    ELSE LET next == Callback(growthData, entries[i], zone)
         IN  IF Has(next, "threw") THEN next
             ELSE ForEach(entries, i + 1, next, zone)

\* lines 40 to 66: response is what useSWR returned
Reshape(response, initial, zone) ==
    IF ~Has(response, "data") THEN initial                \* if (data)
    ELSE IF ~Has(response.data, "data") THEN initial      \* data.data?.
    ELSE ForEach(response.data.data, 1, initial, zone)

\* object spread: the properties of r, overridden by those of s
Merge(r, s) ==
    [f \in DOMAIN r \cup DOMAIN s |-> IF f \in DOMAIN s THEN s[f] ELSE r[f]]

\* a mutant of ReturnValue: a failure is reported by a message of the hook's own
ReturnValueWrappingError(growthData, response) ==
    Merge([growthData |-> growthData, isLoading |-> response.isLoading],
          IF Has(response, "error")
          THEN [error |-> "Failed to load growth data"]
          ELSE EmptyObject)

\* the object of lines 68 to 72; error is undefined when useSWR reports none
ReturnValue(growthData, response) ==
    Merge([growthData |-> growthData, isLoading |-> response.isLoading],
          IF Has(response, "error") THEN [error |-> response.error]
          ELSE EmptyObject)

\* the body of useGrowthData after the useSWR call, as evaluated by component c
UseGrowthData(c, response, zone) ==
    LET growthData == Reshape(response, EmptyGrowthData(c), zone)
    IN  IF Has(growthData, "threw") THEN TypeError
        ELSE ReturnValue(growthData, response)

----------------------------------------------------------------------------
(* The fetch collaborator (useSWR with openmrsFetch) and the FHIR endpoint *)

\* every key an evaluation can hand over
Keys == {Null} \cup {Str(ApiUrl(p)) : p \in PatientIds}

\* the patients the endpoint has observations of
Patients == {"p1", "p2"}

Errors == {"Network Error", "Internal Server Error"}

Observation(date, value, unit, code) ==
    [resource |->
        [effectiveDateTime |-> date,
         valueQuantity |-> [value |-> value, unit |-> unit],
         code |-> [coding |-> <<[code |-> code]>>]]]

\* the payload the endpoint holds for a patient at first; the values tell
\* the two patients apart
FirstPayload(p) ==
    IF p = "p1"
    THEN [data |-> <<Observation("2024-01-01", 70, "cm", Height),
                     Observation("2024-01-01", 9, "kg", WEIGHT)>>]
    ELSE [data |-> <<Observation("2024-01-01", 12, "kg", weight),
                     Observation("2024-06-15", 85, "cm", Height)>>]

\* the payloads the endpoint may come to hold for a patient; the later one
\* of p1 has an entry without a resource
ServerPayloads(p) ==
    {FirstPayload(p)} \cup
        IF p = "p1"
        THEN {[data |-> <<Observation("2024-06-15", 71, "cm", height),
                          EmptyObject>>]}
        ELSE {}

\* what useSWR(key, openmrsFetch) returns: nothing is requested or held for
\* the null key; isLoading is a request in flight with no data loaded yet
UseSWR(k, held, flying) ==
    IF k = Null THEN [isLoading |-> FALSE]
    ELSE Merge(held[k], [isLoading |-> flying[k] > 0 /\ ~Has(held[k], "data")])

\* useSWR requests the key when it is new to the component and no request
\* for it is in flight
StartsRequest(c, k) == k # Null /\ key[c] # k /\ inflight[k] = 0

----------------------------------------------------------------------------
(* Actions *)

Unmounted == [kind |-> "unmounted"]

Init ==
    /\ tz \in TimeZones
    /\ server \in [Patients -> UNION {ServerPayloads(p) : p \in Patients}]
    /\ \A p \in Patients : server[p] \in ServerPayloads(p)
    /\ cache = [k \in Keys |-> EmptyObject]
    /\ inflight = [k \in Keys |-> 0]
    /\ issued = {}
    /\ patientId = [c \in Components |-> Undefined]
    /\ key = [c \in Components |-> Unmounted]
    /\ swr = [c \in Components |-> EmptyObject]
    /\ result = [c \in Components |-> [evaluated |-> FALSE]]
    /\ left = [c \in Components |-> {}]
    /\ late = [c \in Components |-> "none"]

\* component c evaluates useGrowthData(p): lines 32 to 73, the useSWR call
\* and the request it starts included
Render(c, p) ==
    LET k == SwrKey(p)
        starts == StartsRequest(c, k)
        flying == IF starts THEN [inflight EXCEPT ![k] = 1] ELSE inflight
        response == UseSWR(k, cache, flying)
        sameInput == /\ result[c].evaluated
                     /\ patientId[c] = p
                     /\ Has(swr[c], "data") = Has(response, "data")
                     /\ Has(response, "data") => swr[c].data = response.data
    IN  /\ patientId' = [patientId EXCEPT ![c] = p]
        /\ key' = [key EXCEPT ![c] = k]
        /\ inflight' = flying
        /\ issued' = IF starts THEN issued \cup {k} ELSE issued
        /\ swr' = [swr EXCEPT ![c] = response]
        /\ result' = [result EXCEPT ![c] =
                        Merge(UseGrowthData(c, response, tz),
                              [evaluated |-> TRUE, again |-> sameInput])]
        /\ left' = [left EXCEPT ![c] =
                        IF key[c] # k /\ key[c] \in Keys \ {Null}
                           /\ inflight[key[c]] > 0
                        THEN (@ \cup {key[c]}) \ {k}
                        ELSE @ \ {k}]
        /\ late' = [late EXCEPT ![c] =
                        IF @ = "arrived" /\ key[c] = k THEN "observed"
                        ELSE IF key[c] # k THEN "none" ELSE @]
        /\ UNCHANGED <<tz, server, cache>>

\* the collaborator revalidates a key in use (focus, reconnect, retry),
\* unless a request for it is in flight
Revalidate(k) ==
    /\ k # Null
    /\ \E c \in Components : key[c] = k
    /\ inflight[k] = 0
    /\ inflight' = [inflight EXCEPT ![k] = 1]
    /\ issued' = issued \cup {k}
    /\ UNCHANGED <<tz, server, cache, patientId, key, swr, result, left, late>>

\* the endpoint answers the request for key k with patient p's payload
FetchSuccess(k, p) ==
    /\ k # Null
    /\ inflight[k] > 0
    /\ k = Str(ApiUrl(Str(p)))
    /\ cache' = [cache EXCEPT ![k] = [data |-> server[p]]]
    /\ inflight' = [inflight EXCEPT ![k] = 0]
    /\ late' = [c \in Components |->
                    IF k \in left[c] /\ key[c] # k THEN "arrived" ELSE late[c]]
    /\ left' = [c \in Components |-> left[c] \ {k}]
    /\ UNCHANGED <<tz, server, issued, patientId, key, swr, result>>

\* the request for key k fails with error e; the data held stays
FetchFailure(k, e) ==
    /\ k # Null
    /\ inflight[k] > 0
    /\ cache' = [cache EXCEPT ![k] = Merge(@, [error |-> e])]
    /\ inflight' = [inflight EXCEPT ![k] = 0]
    /\ left' = [c \in Components |-> left[c] \ {k}]
    /\ UNCHANGED <<tz, server, issued, patientId, key, swr, result, late>>

\* a new set of observations is recorded for patient p
ServerUpdate(p, d) ==
    /\ d \in ServerPayloads(p)
    /\ d # server[p]
    /\ server' = [server EXCEPT ![p] = d]
    /\ UNCHANGED <<tz, cache, inflight, issued, patientId, key, swr, result,
                   left, late>>

\* one hook instance; the endpoint, the collaborator and the time zone are free
Next ==
    \/ \E p \in PatientIds : Render("c1", p)
    \/ \E k \in Keys : Revalidate(k)
    \/ \E k \in Keys, p \in Patients : FetchSuccess(k, p)
    \/ \E k \in Keys, e \in Errors : FetchFailure(k, e)
    \/ \E p \in Patients : \E d \in ServerPayloads(p) : ServerUpdate(p, d)

Spec == Init /\ [][Next]_vars

----------------------------------------------------------------------------
(* Two hook instances over one cache *)

InitShared ==
    /\ Init
    /\ tz = "UTC"
    /\ server = [p \in Patients |-> FirstPayload(p)]

\* the patientUuid values of the two instances, and the one failure
SharedPatientIds == {Str(""), Str("p1"), Str("p2")}

NextShared ==
    \/ \E c \in Components, p \in SharedPatientIds : Render(c, p)
    \/ \E k \in Keys : Revalidate(k)
    \/ \E k \in Keys, p \in Patients : FetchSuccess(k, p)
    \/ \E k \in Keys : FetchFailure(k, "Network Error")

SpecShared == InitShared /\ [][NextShared]_vars

----------------------------------------------------------------------------
(* One evaluation over every payload up to MaxEntries entries *)

Without(obj, field) == [f \in DOMAIN obj \ {field} |-> obj[f]]

With(obj, field, value) ==
    [f \in DOMAIN obj \cup {field} |-> IF f = field THEN value ELSE obj[f]]

WellFormedEntries ==
    {Observation("2024-01-01", 70, "cm", Height),
     Observation("2024-06-15", 71, "cm", height),
     Observation("2024-01-01", 9, "kg", WEIGHT),
     Observation("2024-06-15", 10, "kg", weight),
     Observation("2024-06-15", 22, "kg/m2", bmi)}

\* entries that lack, or hold an empty or zero value in, one of the
\* properties the callback reads
DefectiveEntries ==
    LET r == Observation("2024-01-01", 70, "cm", Height).resource
        q == r.valueQuantity
        coded(coding) == [resource |-> With(r, "code", [coding |-> coding])]
    IN  {EmptyObject,
         [resource |-> EmptyObject],
         [resource |-> Without(r, "effectiveDateTime")],
         [resource |-> With(r, "effectiveDateTime", "")],
         [resource |-> With(r, "effectiveDateTime", "yesterday")],
         [resource |-> Without(r, "valueQuantity")],
         [resource |-> With(r, "valueQuantity", Without(q, "value"))],
         [resource |-> With(r, "valueQuantity", With(q, "value", 0))],
         [resource |-> With(r, "valueQuantity", Without(q, "unit"))],
         [resource |-> With(r, "valueQuantity", With(q, "unit", ""))],
         [resource |-> Without(r, "code")],
         [resource |-> With(r, "code", EmptyObject)],
         coded(<<>>),
         coded(<<EmptyObject>>),
         coded(<<EmptyObject, [code |-> height]>>),
         coded(<<[code |-> bmi], [code |-> height]>>),
         coded(<<[code |-> weight], [code |-> height]>>)}

Entries == WellFormedEntries \cup DefectiveEntries

SeqsUpTo(S, n) == UNION {[1..m -> S] : m \in 0..n}

\* what the collaborator may hold for the key: nothing, an object without
\* the data wrapper, or a wrapper around up to MaxEntries entries
HeldResponses ==
    {EmptyObject, [data |-> EmptyObject]}
        \cup {[data |-> [data |-> entries]] : entries \in SeqsUpTo(Entries, MaxEntries)}

PayloadPatient == Str("p1")

InitPayload ==
    /\ tz \in TimeZones
    /\ server = [p \in Patients |-> FirstPayload(p)]
    /\ \E held \in HeldResponses :
            cache = [k \in Keys |->
                        IF k = SwrKey(PayloadPatient) THEN held ELSE EmptyObject]
    /\ inflight = [k \in Keys |-> 0]
    /\ issued = {}
    /\ patientId = [c \in Components |-> Undefined]
    /\ key = [c \in Components |-> Unmounted]
    /\ swr = [c \in Components |-> EmptyObject]
    /\ result = [c \in Components |-> [evaluated |-> FALSE]]
    /\ left = [c \in Components |-> {}]
    /\ late = [c \in Components |-> "none"]

NextPayload == ~result["c1"].evaluated /\ Render("c1", PayloadPatient)

SpecPayload == InitPayload /\ [][NextPayload]_vars

----------------------------------------------------------------------------
(* Vocabulary of the properties *)

Returned(c) == Has(result[c], "growthData")

Threw(c) == Has(result[c], "threw")

NoSeries == [height |-> <<>>, weight |-> <<>>]

Range(seq) == {seq[i] : i \in 1..Len(seq)}

MeasurementsOf(c) ==
    Range(result[c].growthData.height) \cup Range(result[c].growthData.weight)

\* the entries of the payload component c's last evaluation was given
EntriesSeen(c) ==
    IF Has(swr[c], "data") /\ Has(swr[c].data, "data")
    THEN swr[c].data.data ELSE <<>>

FalsyIds == {Str(""), Undefined, Null}

UrlOf(id) == "/ws/fhir2/R4/Observation?patient=" \o id \o "&code=height,weight"

----------------------------------------------------------------------------
(* C1 *)

\* C1: an evaluation with a falsy patientId (empty string, undefined, null)
\* hands useSWR the null key and returns exactly the empty series, isLoading
\* false and no error; and no request is ever issued for the null key or for
\* a url built from a falsy patientId.
C1_FalsyPatientIdSuppressesFetch ==
    /\ \A c \in Components :
          result[c].evaluated /\ patientId[c] \in FalsyIds =>
             /\ key[c] = Null
             /\ Returned(c)
             /\ result[c].growthData = NoSeries
             /\ result[c].isLoading = FALSE
             /\ ~Has(result[c], "error")
    /\ Null \notin issued
    /\ \A k \in issued : k \in {Str(UrlOf("p1")), Str(UrlOf("p2"))}

\* an evaluation with the empty string, after another patient's data was
\* fetched and while a request is still in flight
C1_Witness ==
    /\ result["c1"].evaluated
    /\ patientId["c1"] = Str("")
    /\ Has(cache[Str(UrlOf("p1"))], "data")
    /\ inflight[Str(UrlOf("p2"))] = 1

----------------------------------------------------------------------------
(* C2 *)

\* an entry with a non-empty timestamp, a value and a unit
C2_Complete(entry) ==
    /\ Has(entry, "resource")
    /\ Has(entry.resource, "effectiveDateTime")
    /\ entry.resource.effectiveDateTime # ""
    /\ Has(entry.resource, "valueQuantity")
    /\ Has(entry.resource.valueQuantity, "value")
    /\ Has(entry.resource.valueQuantity, "unit")

\* C2: every Measurement of either series has date, value and unit
\* populated, all three taken from one entry of the payload that has a
\* non-empty effectiveDateTime, a value and a unit; entries missing one of
\* them contribute nothing, so the series hold at most one Measurement per
\* complete entry.
C2_OnlyCompleteEntriesContribute ==
    \A c \in Components :
       Returned(c) =>
          LET entries == EntriesSeen(c)
              complete == {i \in 1..Len(entries) : C2_Complete(entries[i])}
          IN  /\ \A m \in MeasurementsOf(c) :
                    /\ DOMAIN m = {"date", "value", "unit"}
                    /\ m.date # "" /\ m.unit # ""
                    /\ \E i \in complete :
                          /\ m.value = entries[i].resource.valueQuantity.value
                          /\ m.unit = entries[i].resource.valueQuantity.unit
                          /\ m.date = ToLocaleDateString(
                                        entries[i].resource.effectiveDateTime, tz)
              /\ Len(result[c].growthData.height)
                    + Len(result[c].growthData.weight) <= Cardinality(complete)

\* a payload with an entry lacking the unit next to a complete entry that
\* made it into a series
C2_Witness ==
    /\ Returned("c1")
    /\ \E i, j \in 1..Len(EntriesSeen("c1")) :
          /\ Has(EntriesSeen("c1")[i], "resource")
          /\ Has(EntriesSeen("c1")[i].resource, "valueQuantity")
          /\ ~Has(EntriesSeen("c1")[i].resource.valueQuantity, "unit")
          /\ C2_Complete(EntriesSeen("c1")[j])
    /\ Len(result["c1"].growthData.height) = 1

----------------------------------------------------------------------------
(* C3 *)

\* an entry with a non-empty effectiveDateTime, a numeric value and a unit,
\* whose first coding entry's code is `code` once lower-cased
C3_Qualifies(entry, code) ==
    /\ C2_Complete(entry)
    /\ entry.resource.valueQuantity.value \in Int
    /\ entry.resource.valueQuantity.unit # ""
    /\ Has(entry.resource, "code")
    /\ Has(entry.resource.code, "coding")
    /\ Len(entry.resource.code.coding) >= 1
    /\ Has(entry.resource.code.coding[1], "code")
    /\ ToLowerCase(entry.resource.code.coding[1].code) = code

\* C3: every entry with a non-empty effectiveDateTime, a numeric value and
\* a unit yields exactly one Measurement in the series its lower-cased first
\* code names, and none otherwise: each series is as long as the number of
\* such entries routed to it.
C3_RoutedByFirstCode ==
    \A c \in Components :
       Returned(c) =>
          LET entries == EntriesSeen(c)
              routed(code) ==
                  {i \in 1..Len(entries) : C3_Qualifies(entries[i], code)}
          IN  /\ Len(result[c].growthData.height) = Cardinality(routed(height))
              /\ Len(result[c].growthData.weight) = Cardinality(routed(weight))

----------------------------------------------------------------------------
(* C4 *)

\* the entry is pushed onto the series named `code`
C4_LandsIn(entry, code) ==
    /\ Has(entry, "resource")
    /\ IsValidObservation(entry.resource)
    /\ CodeOf(entry.resource) = <<code>>

C4_Expected(entries, code) ==
    LET landed == SelectSeq(entries, LAMBDA e : C4_LandsIn(e, code))
    IN  [j \in 1..Len(landed) |-> Measurement(landed[j].resource, tz)]

\* C4: each series holds the Measurements of the entries that land in it in
\* the order of the entries in the payload, whatever lies between them.
C4_SourceOrderPreserved ==
    \A c \in Components :
       Returned(c) =>
          /\ result[c].growthData.height = C4_Expected(EntriesSeen(c), height)
          /\ result[c].growthData.weight = C4_Expected(EntriesSeen(c), weight)

\* entries [A(height), B(weight), C(height)] gave height = [A, C]
C4_Witness ==
    /\ Returned("c1")
    /\ Len(EntriesSeen("c1")) = 3
    /\ C4_LandsIn(EntriesSeen("c1")[1], height)
    /\ C4_LandsIn(EntriesSeen("c1")[2], weight)
    /\ C4_LandsIn(EntriesSeen("c1")[3], height)
    /\ Len(result["c1"].growthData.height) = 2
    /\ result["c1"].growthData.height[1].value = 70
    /\ result["c1"].growthData.height[2].value = 71

----------------------------------------------------------------------------
(* C5 *)

\* C5: no evaluation throws, whatever the payload: every evaluation returns
\* a result, and the entries that follow a skipped one are still processed.
C5_NeverThrows ==
    \A c \in Components :
       result[c].evaluated =>
          /\ ~Threw(c)
          /\ Returned(c)
          /\ \A code \in {height, weight} :
                Len(result[c].growthData[IF code = height THEN "height" ELSE "weight"])
                   = Len(SelectSeq(EntriesSeen(c), LAMBDA e : C4_LandsIn(e, code)))

----------------------------------------------------------------------------
(* C6 *)

\* C6: the error of every returned result is the error useSWR reported to
\* that evaluation, unchanged, and is absent when useSWR reported none.
C6_ErrorPassedThrough ==
    \A c \in Components :
       Returned(c) =>
          /\ Has(result[c], "error") = Has(swr[c], "error")
          /\ Has(swr[c], "error") =>
                result[c].error = swr[c].error /\ result[c].error \in Errors

\* a failed revalidation reported next to the series of the data still held
C6_Witness ==
    /\ Returned("c1")
    /\ Has(result["c1"], "error")
    /\ result["c1"].error = "Internal Server Error"
    /\ result["c1"].growthData.height # <<>>

----------------------------------------------------------------------------
(* C7 *)

\* the values the endpoint ever holds for patient p
C7_ValuesRecordedFor(p) ==
    {d.data[i].resource.valueQuantity.value :
        <<d, i>> \in {<<d, i>> \in ServerPayloads(p) \X (1..MaxEntries) :
                        i <= Len(d.data) /\ Has(d.data[i], "resource")}}

\* C7: whatever the interleaving of key changes and fetch completions, the
\* series returned for a patient hold only Measurements fetched for that
\* patient (or are empty); a response that arrives late for the patient the
\* component has left never shows up in them.
C7_StaleResponseNeverShown ==
    \A c \in Components :
       Returned(c) /\ Truthy(patientId[c]) =>
          \A m \in MeasurementsOf(c) :
             m.value \in C7_ValuesRecordedFor(patientId[c].s)

\* p1's response arrived after the component had moved to p2, and the
\* evaluation after it returned p2's series
C7_Witness ==
    /\ late["c1"] = "observed"
    /\ patientId["c1"] = Str("p2")
    /\ Returned("c1")
    /\ result["c1"].growthData.weight # <<>>
    /\ Has(cache[Str(UrlOf("p1"))], "data")

----------------------------------------------------------------------------
(* C8 *)

----------------------------------------------------------------------------
(* C9 *)

C9_SameResponse(a, b) ==
    /\ Has(a, "data") = Has(b, "data")
    /\ Has(a, "data") => a.data = b.data

\* C9: an evaluation with the patientId and the response of the component's
\* previous evaluation yields the series (or the throw) of the previous one:
\* nothing of an earlier evaluation is carried into the series.
C9_Idempotent ==
    [][\A c \in Components :
          /\ result[c].evaluated
          /\ patientId'[c] = patientId[c]
          /\ C9_SameResponse(swr[c], swr'[c])
          => /\ Threw(c)' = Threw(c)
             /\ Returned(c) => result'[c].growthData = result[c].growthData]_vars

\* an evaluation repeated on the same patientId and response, with series
\* that are not empty
C9_Witness ==
    /\ Returned("c1")
    /\ result["c1"].again
    /\ result["c1"].growthData.height # <<>>
    /\ result["c1"].growthData.weight # <<>>

----------------------------------------------------------------------------
(* C10 *)

C10_ExpectedKey(p) ==
    CASE p = Str("p1") ->
            Str("/ws/fhir2/R4/Observation?patient=p1&code=height,weight")
      [] p = Str("p2") ->
            Str("/ws/fhir2/R4/Observation?patient=p2&code=height,weight")
      [] OTHER -> Null

\* C10: the key an evaluation hands over depends on its patientId alone:
\* null for a falsy one, else <baseUrl>/Observation?patient=<patientId>
\* &code=height,weight; so two instances with one patientId hand over one
\* key, and never more than one request per key is in flight.
C10_KeyIsFunctionOfPatientId ==
    /\ \A c \in Components :
          result[c].evaluated => key[c] = C10_ExpectedKey(patientId[c])
    /\ \A c, d \in Components :
          result[c].evaluated /\ result[d].evaluated
             /\ patientId[c] = patientId[d] => key[c] = key[d]
    /\ \A c, d \in Components :
          result[c].evaluated /\ result[d].evaluated
             /\ patientId[c] # patientId[d] /\ Truthy(patientId[c])
             => key[c] # key[d]
    /\ \A k \in Keys : inflight[k] <= 1

\* two instances on patient p1 share the one request in flight
C10_Witness ==
    /\ patientId["c1"] = Str("p1")
    /\ patientId["c2"] = Str("p1")
    /\ key["c1"] = key["c2"]
    /\ key["c1"] # Null
    /\ inflight[key["c1"]] = 1
    /\ result["c1"].isLoading /\ result["c2"].isLoading

====
